---- MODULE Spec2Model ----
(***************************************************************************)
(* Pool inspection system: the reading workflow service                    *)
(* (services/pool_reading_service.py over pools/models.py), the session    *)
(* gate of the page handlers (app.py, services/auth.py), the submissions   *)
(* dashboard and its cache (ui/submissions_dashboard.py), the submit       *)
(* button of the reading form (ui/pool_form.py).                           *)
(*                                                                         *)
(* Instants are whole seconds since 2025-01-01 00:00:00.                   *)
(* Decimal measurements are counted in tenths (ph_level 72 is 7.2).        *)
(***************************************************************************)
EXTENDS Integers, Sequences, FiniteSets, TLC

\* ---------------------------------------------------------------- bounds
MaxReadings == 2
MaxClock == 1

VARIABLES
    clock,            \* the wall clock, in seconds
    readings,         \* the PoolReading table: row i has primary key i
    last,             \* the most recent service call: arguments and outcome
    accounts,         \* the ids of the User rows that exist
    storage,          \* app.storage.user['user_id'] of each browser session
    logged_in_user,   \* app.py: logged_in_user['user'], one for the process
    served,           \* the most recent page request and the identity it got
    auth,             \* the most recent authenticate_user call and its result
    cache,            \* submissions_dashboard._cache: the one SubmissionsCache
    cache_for,        \* history: the viewer whose load built cache.data
    loads,            \* the load_submissions call in flight of each viewer
    view              \* the most recent step of a load and what it gave;
                      \* table: the primary keys in the table when it queried

vars == <<clock, readings, last, accounts, storage, logged_in_user, served, auth,
          cache, cache_for, loads, view>>

reading_vars == <<clock, readings, last>>

session_vars == <<accounts, storage, logged_in_user, served, auth>>

dash_vars == <<cache, cache_for, loads, view>>

\* ------------------------------------------------- hotels/models.py, accounts/models.py
NoHotel == 0
NoUser == 0

Hotels == {1, 2}

HotelName(h) == IF h = 1 THEN "a" ELSE "a__b"

\* make_password / check_password of django.contrib.auth.hashers
MakePassword(password) == "pbkdf2$" \o password

\* CheckPassword that accepts any password
CheckPasswordAny(password, encoded) == TRUE

CheckPassword(password, encoded) == encoded = MakePassword(password)

Users == {1, 2, 3}

\* the users tried as the actor of a status update: an administrator and a
\* plain user
Actors == {1, 2}

User(u) ==
    CASE u = 1 -> [id |-> 1, username |-> "root", is_admin |-> TRUE, hotel |-> NoHotel,
                   password_hash |-> MakePassword("admin")]
      [] u = 2 -> [id |-> 2, username |-> "b__c", is_admin |-> FALSE, hotel |-> 1,
                   password_hash |-> MakePassword("pw")]
      [] OTHER -> [id |-> 3, username |-> "c", is_admin |-> FALSE, hotel |-> 2,
                   password_hash |-> MakePassword("pw")]

\* ------------------------------------------------------------ pools/models.py
WaterClarity == {"clear", "cloudy", "algae"}

Status == {"open", "submitted", "in_progress", "completed"}

NoDate == -1
NoId == 0

Digit(n) ==
    CASE n = 0 -> "0" [] n = 1 -> "1" [] n = 2 -> "2" [] n = 3 -> "3" [] n = 4 -> "4"
      [] n = 5 -> "5" [] n = 6 -> "6" [] n = 7 -> "7" [] n = 8 -> "8" [] OTHER -> "9"

Pad2(n) == Digit((n \div 10) % 10) \o Digit(n % 10)

\* strftime('%Y%m%d_%H%M%S') of the instant t (seconds into 2025-01-01)
Strftime(t) ==
    "20250101_" \o Pad2((t \div 3600) % 24) \o Pad2((t \div 60) % 60) \o Pad2(t % 60)

\* ------------------------------------------------ services/pool_reading_service.py
MSG_NO_HOTEL == "Kullanici bir otelle iliskilendirilmemis."
MSG_SUBMITTED == "Havuz olcumu basariyla gonderildi."
MSG_VALIDATION == "Dogrulama hatasi"
MSG_SYSTEM == "Sistem hatasi nedeniyle gonderim basarisiz oldu."

NoResult == [success |-> FALSE, message |-> "", reference_id |-> ""]

\* ui/pool_form.py: the values the form starts from
DefaultData ==
    [ph_level |-> 72, chlorine_ppm |-> 10, alkalinity_ppm |-> 100,
     temperature_celsius |-> 260, water_clarity |-> "clear", notes |-> ""]

\* the measurement data a caller may pass to submit_pool_reading
Inputs ==
    {[DefaultData EXCEPT !.ph_level = p] : p \in {-1, 0, 72, 140, 141}}
    \cup {[DefaultData EXCEPT !.water_clarity = "murky"]}
    \cup {[DefaultData EXCEPT !.chlorine_ppm = c] : c \in {-1, 10000}}

\* PoolReadingData(...): the pydantic field constraints
PoolReadingDataValid(d) ==
    /\ d.ph_level >= 0 /\ d.ph_level <= 140
    /\ d.chlorine_ppm >= 0
    /\ d.alkalinity_ppm >= 0

\* DecimalField(max_digits, decimal_places=1): a value in tenths is storable
\* when it has at most max_digits digits
DecimalFits(v, max_digits) == v < 10 ^ max_digits /\ -v < 10 ^ max_digits

DecimalsFit(d) ==
    /\ DecimalFits(d.ph_level, 3)
    /\ DecimalFits(d.chlorine_ppm, 4)
    /\ DecimalFits(d.temperature_celsius, 4)

\* NewReading with the status left at the model's default, open
NewReadingOpen(d, u) ==
    [id |-> NoId, hotel |-> User(u).hotel, submitted_by |-> u,
     submission_date |-> NoDate,
     ph_level |-> d.ph_level, chlorine_ppm |-> d.chlorine_ppm,
     alkalinity_ppm |-> d.alkalinity_ppm,
     temperature_celsius |-> d.temperature_celsius,
     water_clarity |-> d.water_clarity, notes |-> d.notes,
     reference_id |-> "", status |-> "open"]

\* PoolReading(**fields) as _create_reading builds it, before save()
NewReading(d, u) ==
    [id |-> NoId, hotel |-> User(u).hotel, submitted_by |-> u,
     submission_date |-> NoDate,
     ph_level |-> d.ph_level, chlorine_ppm |-> d.chlorine_ppm,
     alkalinity_ppm |-> d.alkalinity_ppm,
     temperature_celsius |-> d.temperature_celsius,
     water_clarity |-> d.water_clarity, notes |-> d.notes,
     reference_id |-> "", status |-> "submitted"]

\* PoolReading.save, its own part: the reference id is generated when empty
ReferenceIdOnSave(obj, now) ==
    IF obj.reference_id = ""
    THEN LET timestamp == IF obj.submission_date # NoDate
                          THEN Strftime(obj.submission_date)
                          ELSE Strftime(now)
         IN [obj EXCEPT !.reference_id =
                HotelName(obj.hotel) \o "__" \o User(obj.submitted_by).username
                    \o "__" \o timestamp]
    ELSE obj

ReferenceIds(store) == {store[i].reference_id : i \in DOMAIN store}

\* InsertReading with no unique constraint on reference_id
InsertReadingNoUnique(store, obj, now, fault) ==
    LET row == [obj EXCEPT !.submission_date = now, !.id = Len(store) + 1]
    IN  IF fault THEN [exc |-> "OperationalError", store |-> store, obj |-> obj]
        ELSE [exc |-> "none", store |-> Append(store, row), obj |-> row]

\* super().save() of a new object: auto_now_add, the decimal columns, the
\* unique constraint on reference_id, the new primary key.
\* fault: the store fails on this statement.
InsertReading(store, obj, now, fault) ==
    LET row == [obj EXCEPT !.submission_date = now, !.id = Len(store) + 1]
    IN  IF fault THEN [exc |-> "OperationalError", store |-> store, obj |-> obj]
        ELSE IF ~DecimalsFit(obj)
        THEN [exc |-> "InvalidOperation", store |-> store, obj |-> obj]
        ELSE IF obj.reference_id \in ReferenceIds(store)
        THEN [exc |-> "IntegrityError", store |-> store, obj |-> obj]
        ELSE [exc |-> "none", store |-> Append(store, row), obj |-> row]

\* the two except clauses of submit_reading
SubmissionFailure(exc) ==
    IF exc = "ValueError"
    THEN [success |-> FALSE, message |-> MSG_VALIDATION, reference_id |-> ""]
    ELSE [success |-> FALSE, message |-> MSG_SYSTEM, reference_id |-> ""]

\* PoolReadingService.submit_reading(data, user) at instant now; the clock
\* reads now2 when auto_now_add stamps the row.
SubmitReading(store, d, u, now, now2, fault) ==
    IF User(u).hotel = NoHotel
    THEN [result |-> [success |-> FALSE, message |-> MSG_NO_HOTEL, reference_id |-> ""],
          store |-> store, caught |-> "none"]
    ELSE LET obj == ReferenceIdOnSave(NewReading(d, u), now)
             ins == InsertReading(store, obj, now2, fault = "create")
         IN  IF ins.exc # "none"
             THEN [result |-> SubmissionFailure(ins.exc), store |-> store,
                   caught |-> ins.exc]
             ELSE IF fault = "refresh"
             THEN [result |-> SubmissionFailure("OperationalError"),
                   store |-> ins.store, caught |-> "OperationalError"]
             ELSE [result |-> [success |-> TRUE, message |-> MSG_SUBMITTED,
                               reference_id |-> ins.obj.reference_id],
                   store |-> ins.store, caught |-> "none"]

NoReading == [id |-> NoId]

\* PoolReadingService.get_reading_by_reference: the row with that reference
\* id, NoReading when there is none
ReadingByReference(store, ref) ==
    IF ref \in ReferenceIds(store)
    THEN store[CHOOSE i \in DOMAIN store : store[i].reference_id = ref]
    ELSE NoReading

\* SaveStatus with a save() that makes a new reference id at every save and
\* writes every column
SaveStatusRegenerating(store, reading, now) ==
    LET obj == [reading EXCEPT !.reference_id =
                    HotelName(reading.hotel) \o "__"
                        \o User(reading.submitted_by).username \o "__" \o Strftime(now)]
    IN  [obj |-> obj, store |-> [store EXCEPT ![obj.id] = obj]]

\* SaveStatus with a submission_date that is stamped at every save and
\* written with the status
SaveStatusRestamping(store, reading, now) ==
    LET obj == [ReferenceIdOnSave(reading, now) EXCEPT !.submission_date = now]
    IN  [obj |-> obj,
         store |-> [store EXCEPT ![obj.id].status = obj.status,
                                 ![obj.id].submission_date = obj.submission_date]]

\* reading.asave(update_fields=['status']): PoolReading.save runs its
\* reference-id step, then UPDATE ... SET status = ... WHERE id = reading.id
SaveStatus(store, reading, now) ==
    LET obj == ReferenceIdOnSave(reading, now)
    IN  [obj |-> obj, store |-> [store EXCEPT ![obj.id].status = obj.status]]

\* ValidStatus with the membership test left out
ValidStatusLax(new_status) == TRUE

\* new_status in dict(PoolReading.Status.choices)
ValidStatus(new_status) == new_status \in Status

\* PoolReadingService.update_reading_status(reading, new_status, updated_by):
\* the value returned, the reading object and the table afterwards
UpdateReadingStatusOutcome(store, reading, new_status, updated_by, now, fault) ==
    IF ~ValidStatus(new_status)
    THEN [ret |-> FALSE, reading |-> reading, store |-> store,
          caught |-> "ValueError", wrote |-> FALSE]
    ELSE LET assigned == [reading EXCEPT !.status = new_status]
             saved == SaveStatus(store, assigned, now)
         IN  IF fault
             THEN [ret |-> FALSE, reading |-> ReferenceIdOnSave(assigned, now),
                   store |-> store, caught |-> "OperationalError", wrote |-> FALSE]
             ELSE [ret |-> TRUE, reading |-> saved.obj, store |-> saved.store,
                   caught |-> "none", wrote |-> TRUE]

\* ------------------------------------------------------------ services/auth.py
MSG_REQUIRED == "Kullanici adi ve sifre gereklidir"
MSG_LOGIN_OK == "Giris basarili!"
MSG_BAD_PASSWORD == "Gecersiz sifre"
MSG_NO_SUCH_USER == "Kullanici bulunamadi"
MSG_AUTH_ERROR == "Kimlik dogrulama sirasinda bir hata olustu"

\* the browser sessions (one token each)
Sessions == {"s1", "s2"}

\* User.objects.aget(username=...): the id of the existing user of that
\* name, NoUser for DoesNotExist
UserByUsername(existing, username) ==
    IF \E u \in existing : User(u).username = username
    THEN CHOOSE u \in existing : User(u).username = username
    ELSE NoUser

\* AuthenticationService.authenticate(username, password); fault: the store
\* fails on the lookup
Authenticate(existing, username, password, fault) ==
    IF username = "" \/ password = ""
    THEN [success |-> FALSE, message |-> MSG_REQUIRED, user |-> NoUser, read |-> FALSE]
    ELSE IF fault
    THEN [success |-> FALSE, message |-> MSG_AUTH_ERROR, user |-> NoUser, read |-> TRUE]
    ELSE LET u == UserByUsername(existing, username)
         IN  IF u = NoUser
             THEN [success |-> FALSE, message |-> MSG_NO_SUCH_USER, user |-> NoUser,
                   read |-> TRUE]
             ELSE IF CheckPassword(password, User(u).password_hash)
             THEN [success |-> TRUE, message |-> MSG_LOGIN_OK, user |-> u, read |-> TRUE]
             ELSE [success |-> FALSE, message |-> MSG_BAD_PASSWORD, user |-> NoUser,
                   read |-> TRUE]

\* no authenticate call yet
NoAuth ==
    [called |-> FALSE, username |-> "", password |-> "", fault |-> FALSE,
     existing |-> {},
     result |-> [success |-> FALSE, message |-> "", user |-> NoUser, read |-> FALSE]]

\* GetCurrentUser that leaves a stale session as it is
GetCurrentUserNoClear(existing, user_id, fault) ==
    IF user_id = NoUser
    THEN [user |-> NoUser, cleared |-> FALSE]
    ELSE IF fault
    THEN [user |-> NoUser, cleared |-> FALSE]
    ELSE IF user_id \notin existing
    THEN [user |-> NoUser, cleared |-> FALSE]
    ELSE [user |-> user_id, cleared |-> FALSE]

\* AuthenticationService.get_current_user() in the session whose stored user
\* id is user_id: the user returned and whether the session was cleared
GetCurrentUser(existing, user_id, fault) ==
    IF user_id = NoUser
    THEN [user |-> NoUser, cleared |-> FALSE]
    ELSE IF fault
    THEN [user |-> NoUser, cleared |-> FALSE]
    ELSE IF user_id \notin existing
    THEN [user |-> NoUser, cleared |-> TRUE]
    ELSE [user |-> user_id, cleared |-> FALSE]

\* ------------------------------------------------ ui/submissions_dashboard.py
CACHE_TTL_SECONDS == 60

\* strftime(DATE_FORMAT), '%Y-%m-%d %H:%M', of the instant t
StrftimeMinute(t) ==
    "2025-01-01 " \o Pad2((t \div 3600) % 24) \o ":" \o Pad2((t \div 60) % 60)

\* get_status_display: the label of the choice, the raw value when it is none
StatusDisplay(st) ==
    CASE st = "open" -> "Acik" [] st = "submitted" -> "Gonderildi"
      [] st = "in_progress" -> "Inceleniyor" [] st = "completed" -> "Tamamlandi"
      [] OTHER -> st

\* get_water_clarity_display
WaterClarityDisplay(wc) ==
    CASE wc = "clear" -> "Berrak" [] wc = "cloudy" -> "Bulanik"
      [] wc = "algae" -> "Yosun Var" [] OTHER -> wc

\* SubmissionRow(...) of one reading
SubmissionRow(reading) ==
    [id |-> reading.id, reference_id |-> reading.reference_id,
     hotel_name |-> HotelName(reading.hotel),
     submitted_by |-> User(reading.submitted_by).username,
     submission_date |-> StrftimeMinute(reading.submission_date),
     status |-> StatusDisplay(reading.status),
     ph_level |-> reading.ph_level, chlorine_ppm |-> reading.chlorine_ppm,
     water_clarity |-> WaterClarityDisplay(reading.water_clarity)]

\* Meta.ordering = ['-submission_date'] over the rows ids of the table; rows
\* of one instant are taken in primary-key order
RECURSIVE OrderedRows(_, _)
OrderedRows(store, ids) ==
    IF ids = {} THEN << >>
    ELSE LET first == CHOOSE i \in ids : \A j \in ids :
                          \/ store[j].submission_date < store[i].submission_date
                          \/ /\ store[j].submission_date = store[i].submission_date
                             /\ j >= i
         IN  <<SubmissionRow(store[first])>> \o OrderedRows(store, ids \ {first})

\* FetchFromDatabase with the hotel filter left out
FetchFromDatabaseUnfiltered(store, u) == OrderedRows(store, DOMAIN store)

\* SubmissionsDashboardComponent._fetch_from_database for the viewer u
FetchFromDatabase(store, u) ==
    IF ~User(u).is_admin
    THEN OrderedRows(store, {i \in DOMAIN store : store[i].hotel = User(u).hotel})
    ELSE OrderedRows(store, DOMAIN store)

\* SubmissionsCache.__init__ and invalidate: populated is "_data is not None
\* and _timestamp is not None"
EmptyCache == [populated |-> FALSE, data |-> << >>, timestamp |-> NoDate,
               user_id |-> NoUser]

\* CacheIsValid with an age equal to the ttl still valid
CacheIsValidInclusive(c, user_id, now) ==
    /\ c.populated
    /\ c.user_id = user_id
    /\ now - c.timestamp <= CACHE_TTL_SECONDS

\* CacheIsValid with the owner test left out
CacheIsValidAnyUser(c, user_id, now) ==
    /\ c.populated
    /\ now - c.timestamp < CACHE_TTL_SECONDS

\* SubmissionsCache._is_valid(user_id) at the instant now
CacheIsValid(c, user_id, now) ==
    /\ c.populated
    /\ c.user_id = user_id
    /\ now - c.timestamp < CACHE_TTL_SECONDS

\* SubmissionsCache.get(user_id): hit FALSE is the return of None
CacheGet(c, user_id, now) ==
    IF ~CacheIsValid(c, user_id, now)
    THEN [hit |-> FALSE, data |-> << >>]
    ELSE [hit |-> TRUE, data |-> c.data]

\* SubmissionsCache.set(user_id, data)
CacheSet(user_id, data, now) ==
    [populated |-> TRUE, data |-> data, timestamp |-> now, user_id |-> user_id]

\* the users that open the dashboard: an administrator and a plain user
Viewers == {1, 2}

\* no load_submissions call in flight
NoLoad == [pc |-> "idle", rows |-> << >>]

NoView == [op |-> "init", viewer |-> NoUser, now |-> 0, hit |-> FALSE,
           returned |-> FALSE, source |-> "none", made_for |-> NoUser,
           rows |-> << >>, table |-> {}, exc |-> "none"]

\* -------------------------------------------------------------------- app.py
NoServe == [page |-> "none", session |-> "", stored |-> NoUser, as |-> NoUser]

\* the guard of pool_page, submissions_page and new_form_page: the user the
\* page is rendered for, NoUser when the request is refused
PageUser(global_user, stored) == global_user

\* where the store may fail during one submission
Faults == {"none", "create", "refresh"}

\* ---------------------------------------------------------------- actions
\* the record of a call that has not happened
NoCall ==
    [op |-> "init", actor |-> NoUser, data |-> DefaultData, rid |-> NoId,
     status |-> "", exc |-> "none", caught |-> "none", result |-> NoResult,
     ret |-> FALSE, wrote |-> FALSE, reading |-> NoReading, before |-> << >>]

Init ==
    /\ clock = 0
    /\ readings = << >>
    /\ last = NoCall
    /\ accounts = Users
    /\ storage = [s \in Sessions |-> NoUser]
    /\ logged_in_user = NoUser
    /\ served = NoServe
    /\ auth = NoAuth
    /\ cache = EmptyCache
    /\ cache_for = NoUser
    /\ loads = [v \in Viewers |-> NoLoad]
    /\ view = NoView

Tick ==
    /\ clock < MaxClock
    /\ clock' = clock + 1
    /\ UNCHANGED <<readings, last>>
    /\ UNCHANGED session_vars
    /\ UNCHANGED dash_vars

\* submit_pool_reading(ph_level, ..., user): the form's entry point
SubmitPoolReading(u, d, fault, now2) ==
    /\ UNCHANGED session_vars
    /\ UNCHANGED dash_vars
    /\ IF ~PoolReadingDataValid(d)
       THEN \* PoolReadingData(...) raises outside any try
            /\ fault = "none" /\ now2 = clock
            /\ last' = [NoCall EXCEPT !.op = "submit", !.actor = u, !.data = d,
                                      !.exc = "ValidationError",
                                      !.before = readings]
            /\ UNCHANGED <<clock, readings>>
       ELSE LET out == SubmitReading(readings, d, u, clock, now2, fault)
            IN  /\ Len(out.store) <= MaxReadings
                /\ readings' = out.store
                /\ clock' = now2
                /\ last' = [NoCall EXCEPT !.op = "submit", !.actor = u, !.data = d,
                                          !.caught = out.caught,
                                          !.result = out.result,
                                          !.ret = out.result.success,
                                          !.wrote = out.store # readings,
                                          !.before = readings]

\* get_reading_by_reference(reference_id)
GetReadingByReference(ref, fault) ==
    /\ last' = IF fault
               THEN \* only DoesNotExist is caught
                    [NoCall EXCEPT !.op = "get", !.exc = "OperationalError",
                                   !.before = readings]
               ELSE [NoCall EXCEPT !.op = "get",
                                   !.caught = IF ref \in ReferenceIds(readings)
                                              THEN "none" ELSE "DoesNotExist",
                                   !.ret = ref \in ReferenceIds(readings),
                                   !.reading = ReadingByReference(readings, ref),
                                   !.before = readings]
    /\ UNCHANGED <<clock, readings>>
    /\ UNCHANGED session_vars
    /\ UNCHANGED dash_vars

\* update_reading_status(reading, new_status, updated_by) on the reading
\* object of row rid, as loaded from the table
UpdateReadingStatus(rid, new_status, updated_by, fault) ==
    /\ LET out == UpdateReadingStatusOutcome(readings, readings[rid], new_status,
                                              updated_by, clock, fault)
       IN  /\ readings' = out.store
           /\ last' = [NoCall EXCEPT !.op = "update", !.actor = updated_by,
                                     !.rid = rid, !.status = new_status,
                                     !.caught = out.caught, !.ret = out.ret,
                                     !.wrote = out.wrote, !.reading = out.reading,
                                     !.before = readings]
    /\ UNCHANGED clock
    /\ UNCHANGED session_vars
    /\ UNCHANGED dash_vars

\* LoginFormComponent.handle_login in session s, with set_logged_in_user as
\* its success callback
HandleLogin(s, username, password, fault) ==
    /\ LET result == Authenticate(accounts, username, password, fault)
       IN  IF username # "" /\ password # "" /\ result.success
           THEN /\ logged_in_user' = result.user
                /\ storage' = [storage EXCEPT ![s] = result.user]
           ELSE UNCHANGED <<logged_in_user, storage>>
    /\ UNCHANGED <<accounts, served, auth>>
    /\ UNCHANGED reading_vars
    /\ UNCHANGED dash_vars

\* authenticate_user(username, password) called with any input
AuthenticateUser(username, password, fault) ==
    /\ auth' = [called |-> TRUE, username |-> username, password |-> password,
                fault |-> fault, existing |-> accounts,
                result |-> Authenticate(accounts, username, password, fault)]
    /\ UNCHANGED <<accounts, storage, logged_in_user, served>>
    /\ UNCHANGED reading_vars
    /\ UNCHANGED dash_vars

\* pool_page, submissions_page, new_form_page requested by session s
GlobalGuardPage(s, page) ==
    /\ served' = [page |-> page, session |-> s, stored |-> storage[s],
                  as |-> PageUser(logged_in_user, storage[s])]
    /\ UNCHANGED <<accounts, storage, logged_in_user, auth>>
    /\ UNCHANGED reading_vars
    /\ UNCHANGED dash_vars

\* form_page(ref_id) requested by session s
FormPage(s, fault) ==
    /\ LET cur == GetCurrentUser(accounts, storage[s], fault)
       IN  /\ served' = [page |-> "form_view", session |-> s, stored |-> storage[s],
                         as |-> cur.user]
           /\ storage' = IF cur.cleared THEN [storage EXCEPT ![s] = NoUser]
                         ELSE storage
    /\ UNCHANGED <<accounts, logged_in_user, auth>>
    /\ UNCHANGED reading_vars
    /\ UNCHANGED dash_vars

\* provisioning, outside the services: a user row is deleted
DeleteUser(u) ==
    /\ u \in accounts
    /\ accounts' = accounts \ {u}
    /\ UNCHANGED <<storage, logged_in_user, served, auth>>
    /\ UNCHANGED reading_vars
    /\ UNCHANGED dash_vars

\* time passes while nothing else happens: just short of the cache's ttl
Elapse ==
    /\ clock <= MaxClock
    /\ clock' = clock + CACHE_TTL_SECONDS - 1
    /\ UNCHANGED <<readings, last>>
    /\ UNCHANGED session_vars
    /\ UNCHANGED dash_vars

\* more time passes, after Elapse: again just short of the cache's ttl
ElapseAgain ==
    /\ clock > MaxClock
    /\ clock <= MaxClock + CACHE_TTL_SECONDS - 1
    /\ clock' = clock + CACHE_TTL_SECONDS - 1
    /\ UNCHANGED <<readings, last>>
    /\ UNCHANGED session_vars
    /\ UNCHANGED dash_vars

\* load_submissions(force_refresh) of viewer v, up to its first await: the
\* cache is asked unless the refresh is forced
LoadStart(v, force_refresh) ==
    /\ loads[v].pc = "idle"
    /\ LET got == CacheGet(cache, v, clock)
       IN  IF ~force_refresh /\ got.hit
           THEN /\ view' = [NoView EXCEPT !.op = "get", !.viewer = v, !.now = clock,
                                          !.hit = TRUE, !.returned = TRUE,
                                          !.source = "cache",
                                          !.made_for = cache_for,
                                          !.rows = got.data]
                /\ UNCHANGED loads
           ELSE /\ view' = [NoView EXCEPT !.op = IF force_refresh THEN "force"
                                                 ELSE "get",
                                          !.viewer = v, !.now = clock]
                /\ loads' = [loads EXCEPT ![v] = [pc |-> "miss", rows |-> << >>]]
    /\ UNCHANGED <<cache, cache_for>>
    /\ UNCHANGED reading_vars
    /\ UNCHANGED session_vars

\* LoadQuery that answers a store failure with the rows left in the cache
LoadQueryStaleFallback(v, fault) ==
    /\ loads[v].pc = "miss"
    /\ IF fault
       THEN /\ loads' = [loads EXCEPT ![v] = NoLoad]
            /\ view' = [NoView EXCEPT !.op = "query", !.viewer = v, !.now = clock,
                                      !.returned = TRUE, !.source = "cache",
                                      !.made_for = cache_for,
                                      !.rows = cache.data]
       ELSE LET submissions == FetchFromDatabase(readings, v)
            IN  /\ loads' = [loads EXCEPT ![v] = [pc |-> "fetched",
                                                  rows |-> submissions]]
                /\ view' = [NoView EXCEPT !.op = "query", !.viewer = v,
                                          !.now = clock, !.made_for = v,
                                          !.rows = submissions,
                                          !.table = DOMAIN readings]
    /\ UNCHANGED <<cache, cache_for>>
    /\ UNCHANGED reading_vars
    /\ UNCHANGED session_vars

\* _fetch_from_database of viewer v: the query runs against the table;
\* fault: the store fails, the exception leaves load_submissions (and
\* refresh_table), which catch nothing
LoadQuery(v, fault) ==
    /\ loads[v].pc = "miss"
    /\ IF fault
       THEN /\ loads' = [loads EXCEPT ![v] = NoLoad]
            /\ view' = [NoView EXCEPT !.op = "query", !.viewer = v, !.now = clock,
                                      !.exc = "OperationalError"]
       ELSE LET submissions == FetchFromDatabase(readings, v)
            IN  /\ loads' = [loads EXCEPT ![v] = [pc |-> "fetched",
                                                  rows |-> submissions]]
                /\ view' = [NoView EXCEPT !.op = "query", !.viewer = v,
                                          !.now = clock, !.made_for = v,
                                          !.rows = submissions,
                                          !.table = DOMAIN readings]
    /\ UNCHANGED <<cache, cache_for>>
    /\ UNCHANGED reading_vars
    /\ UNCHANGED session_vars

\* load_submissions of viewer v after the fetch: cache.set, then the return
LoadFinish(v) ==
    /\ loads[v].pc = "fetched"
    /\ cache' = CacheSet(v, loads[v].rows, clock)
    /\ cache_for' = v
    /\ loads' = [loads EXCEPT ![v] = NoLoad]
    /\ view' = [NoView EXCEPT !.op = "set", !.viewer = v, !.now = clock,
                              !.returned = TRUE, !.source = "store",
                              !.made_for = v, !.rows = loads[v].rows]
    /\ UNCHANGED reading_vars
    /\ UNCHANGED session_vars

\* ------------------------------------------------------------ ui/pool_form.py
READONLY_STATUSES == {"in_progress", "completed"}

\* the values typed into the form opened on an existing reading
FormInputs == {[DefaultData EXCEPT !.notes = "revised"]}

\* PoolFormComponent.handle_submit of the form that user u opened on the
\* reading of row rid (reading_ref_id is its reference id), with d typed in:
\* the submit button is there when the reading is not read-only or u is an
\* administrator
HandleSubmit(u, rid, d, fault) ==
    /\ rid \in DOMAIN readings
    /\ readings[rid].status \notin READONLY_STATUSES \/ User(u).is_admin
    /\ SubmitPoolReading(u, d, fault, clock)

\* the data tried where the measurement values play no part
WorkflowInputs == {DefaultData}

\* skews: by how many seconds the clock may move between the two readings of
\* it that one save() makes
Submit(inputs, skews) ==
    \E u \in Users, d \in inputs, fault \in Faults,
       now2 \in {clock + k : k \in skews} \cap (0..MaxClock) :
        SubmitPoolReading(u, d, fault, now2)

Lookup ==
    \E ref \in ReferenceIds(readings) \cup {"missing"}, fault \in BOOLEAN :
        GetReadingByReference(ref, fault)

Update ==
    \E rid \in DOMAIN readings, new_status \in Status \cup {"bogus"},
       updated_by \in Actors, fault \in BOOLEAN :
        UpdateReadingStatus(rid, new_status, updated_by, fault)

\* the reading workflow: submissions, lookups and status updates
Next ==
    \/ Tick
    \/ Submit(WorkflowInputs, {0})
    \/ Lookup
    \/ Update

Spec == Init /\ [][Next]_vars

\* submissions alone, over every measurement input
NextSubmit ==
    \/ Tick
    \/ Submit(Inputs, {0})

SpecSubmit == Init /\ [][NextSubmit]_vars


\* submissions during which the clock may pass a second boundary between
\* save()'s datetime.now() and the auto_now_add stamp
NextSkew ==
    \/ Tick
    \/ Submit(WorkflowInputs, {0, 1})

SpecSkew == Init /\ [][NextSkew]_vars

\* the dashboard: loads of the viewers interleaved with each other, with
\* submissions and with the passing of time
NextDashboard ==
    \/ Tick
    \/ Elapse
    \/ Submit(WorkflowInputs, {0})
    \/ \E v \in Viewers, force_refresh \in BOOLEAN : LoadStart(v, force_refresh)
    \/ \E v \in Viewers : LoadQuery(v, FALSE)
    \/ \E v \in Viewers : LoadFinish(v)

SpecDashboard == Init /\ [][NextDashboard]_vars

\* the dashboard over a store that may fail on the query
NextRebuild ==
    \/ Tick
    \/ Elapse
    \/ Submit(WorkflowInputs, {0})
    \/ \E v \in Viewers, force_refresh \in BOOLEAN : LoadStart(v, force_refresh)
    \/ \E v \in Viewers, fault \in BOOLEAN : LoadQuery(v, fault)
    \/ \E v \in Viewers : LoadFinish(v)

SpecRebuild == Init /\ [][NextRebuild]_vars

\* the credentials typed into the login form
Usernames == {"", "root", "b__c", "ghost"}

Passwords == {"", "admin", "pw"}

\* authenticate_user called with any credentials while users come and go
NextAuth ==
    \/ \E username \in Usernames, password \in Passwords, fault \in BOOLEAN :
            AuthenticateUser(username, password, fault)
    \/ \E u \in Users : DeleteUser(u)

SpecAuth == Init /\ [][NextAuth]_vars

\* the form: readings are submitted and opened in the form again
NextForm ==
    \/ Tick
    \/ Submit(WorkflowInputs, {0})
    \/ \E u \in Users, rid \in DOMAIN readings, d \in FormInputs, fault \in Faults :
            HandleSubmit(u, rid, d, fault)

SpecForm == Init /\ [][NextForm]_vars

\* the loads that are not forced (the page render and the plain
\* refresh_table()), over a longer stretch of time
NextFreshness ==
    \/ Tick
    \/ Elapse
    \/ ElapseAgain
    \/ Submit(WorkflowInputs, {0})
    \/ \E v \in Viewers : LoadStart(v, FALSE)
    \/ \E v \in Viewers : LoadQuery(v, FALSE)
    \/ \E v \in Viewers : LoadFinish(v)

SpecFreshness == Init /\ [][NextFreshness]_vars

\* logins and page requests of the browser sessions
NextSession ==
    \/ \E s \in Sessions, username \in Usernames, password \in Passwords,
          fault \in BOOLEAN :
            HandleLogin(s, username, password, fault)
    \/ \E s \in Sessions, page \in {"pool", "submissions", "form"} :
            GlobalGuardPage(s, page)
    \/ \E s \in Sessions, fault \in BOOLEAN : FormPage(s, fault)
    \/ \E u \in Users : DeleteUser(u)

SpecSession == Init /\ [][NextSession]_vars


\* ------------------------------------------------------------------ claims
\* the place of a status in the lifecycle open, submitted, in_progress, completed
StatusRank(st) ==
    CASE st = "open" -> 0 [] st = "submitted" -> 1 [] st = "in_progress" -> 2
      [] OTHER -> 3

\* C1: every protected page is served to a session under the identity stored
\* for that session's own token; a session with no stored identity is refused
\* and a login in another session never changes the identity it is served as.
C1_ServedUnderOwnIdentity ==
    served.page # "none" =>
        /\ served.stored = NoUser => served.as = NoUser
        /\ served.as # NoUser => served.as = served.stored

\* C2: update_reading_status called by an actor who is not an administrator
\* returns false and leaves the reading's status unchanged.
C2_NonAdminUpdateRejected ==
    (last.op = "update" /\ ~User(last.actor).is_admin) =>
        /\ last.ret = FALSE
        /\ readings[last.rid].status = last.before[last.rid].status

\* C3: a reading's status only moves forward in the order open, submitted,
\* in_progress, completed; an update to an earlier status is rejected and the
\* status is then unchanged.
C3_StatusOnlyForward ==
    /\ \A i \in DOMAIN last.before :
          StatusRank(readings[i].status) >= StatusRank(last.before[i].status)
    /\ (/\ last.op = "update"
        /\ ValidStatus(last.status)
        /\ StatusRank(last.status) < StatusRank(last.before[last.rid].status))
          => last.ret = FALSE

\* C4: update_reading_status with a status that is not one of the four
\* values returns false before any store write and leaves the status of the
\* reading (the row and the object passed in) unchanged, also for an
\* administrator.
C4_InvalidStatusRejected ==
    (last.op = "update" /\ last.status \notin Status) =>
        /\ last.ret = FALSE
        /\ ~last.wrote
        /\ readings = last.before
        /\ last.reading.status = last.before[last.rid].status

C4_Witness ==
    /\ last.op = "update"
    /\ last.status = "bogus"
    /\ User(last.actor).is_admin
    /\ readings[last.rid].status = "in_progress"

\* C5: a persisted reading stays in the store with the same reference id:
\* no submission, status update or save removes the row or changes its
\* reference id.
C5_ReferenceIdPermanent ==
    [][\A i \in DOMAIN readings :
          /\ i \in DOMAIN readings'
          /\ readings'[i].id = readings[i].id
          /\ readings'[i].reference_id = readings[i].reference_id]_vars

C5_Witness ==
    /\ Len(readings) = 2
    /\ last.op = "update" /\ last.ret /\ last.rid = 1
    /\ readings[1].status = "completed"
    /\ clock > readings[1].submission_date

\* C6: no two stored readings share a reference id, and a submission that
\* collides (same hotel, same user, same second) fails and leaves the table
\* as it was.
C6_ReferenceIdsUnique ==
    /\ \A i, j \in DOMAIN readings :
          i # j => readings[i].reference_id # readings[j].reference_id
    /\ (last.op = "submit" /\ last.caught = "IntegrityError") =>
          /\ ~last.result.success
          /\ readings = last.before

C6_Witness ==
    /\ Len(readings) = 2
    /\ last.op = "submit" /\ last.caught = "IntegrityError"
    /\ \E i \in DOMAIN readings :
          /\ readings[i].submitted_by = last.actor
          /\ readings[i].submission_date = clock

\* C7: a submission that collides on the reference id returns a conflict
\* outcome the caller can tell apart from the generic store-failure outcome.
C7_ConflictDistinct ==
    (last.op = "submit" /\ last.caught = "IntegrityError") =>
        last.result # SubmissionFailure("OperationalError")

\* C8: a submission by a user with no hotel fails with the no-hotel outcome
\* whatever the measurement data is, never with a validation outcome or an
\* exception.
C8_NoHotelFirst ==
    (last.op = "submit" /\ User(last.actor).hotel = NoHotel) =>
        /\ last.exc = "none"
        /\ ~last.result.success
        /\ last.result.message = MSG_NO_HOTEL

\* C9: for a user with a hotel and otherwise valid data, the submission
\* succeeds exactly when 0.0 <= ph_level <= 14.0, and a rejected ph_level
\* yields a failure result, not an exception.
C9_PhRange ==
    (/\ last.op = "submit"
     /\ User(last.actor).hotel # NoHotel
     /\ [last.data EXCEPT !.ph_level = DefaultData.ph_level] = DefaultData) =>
        /\ last.exc = "none"
        /\ (last.data.ph_level < 0 \/ last.data.ph_level > 140)
              => ~last.result.success
        /\ (last.data.ph_level >= 0 /\ last.data.ph_level <= 140
                /\ last.caught = "none")
              => last.result.success

\* C10: a submission whose water_clarity is not one of clear, cloudy, algae
\* is rejected and no reading is written.
C10_ClarityValidated ==
    (last.op = "submit" /\ last.data.water_clarity \notin WaterClarity) =>
        /\ ~last.result.success
        /\ readings = last.before

\* C11: a submission that returns a failure result (no hotel, validation, a
\* store fault at the create or at the re-read after it) has added no
\* reading and changed no existing reading.
C11_FailureWritesNothing ==
    (last.op = "submit" /\ last.exc = "none" /\ ~last.result.success) =>
        readings = last.before

\* C12: a successful submission adds exactly one reading, in status
\* submitted, of the submitting user's hotel and with that user as submitter,
\* and returns that reading's reference id; no submission creates a reading
\* in status open or changes another reading.
C12_SubmitAddsOneSubmitted ==
    last.op = "submit" =>
        /\ \A i \in DOMAIN last.before : readings[i] = last.before[i]
        /\ \A i \in DOMAIN readings \ DOMAIN last.before :
              readings[i].status # "open"
        /\ last.result.success =>
              /\ Len(readings) = Len(last.before) + 1
              /\ readings[Len(readings)].status = "submitted"
              /\ readings[Len(readings)].hotel = User(last.actor).hotel
              /\ readings[Len(readings)].submitted_by = last.actor
              /\ readings[Len(readings)].reference_id = last.result.reference_id

C12_Witness ==
    /\ last.op = "submit" /\ last.result.success
    /\ Len(readings) = 2
    /\ readings[1].status = "completed"
    /\ readings[1].hotel # readings[2].hotel

\* C13: the reference id of every stored reading is hotel name, "__",
\* username, "__" and the reading's own stored submission_date formatted as
\* YYYYMMDD_HHMMSS.
C13_ReferenceIdCarriesSubmissionDate ==
    \A i \in DOMAIN readings :
        readings[i].reference_id =
            HotelName(readings[i].hotel) \o "__"
                \o User(readings[i].submitted_by).username \o "__"
                \o Strftime(readings[i].submission_date)

\* C14: cache.get(user_id) returns rows exactly when the slot is populated,
\* its owner is user_id and its age is under 60 seconds (an age of exactly
\* 60 is a miss); the rows returned are those of the latest set, which
\* stored its rows, its user id and the instant of the call.
C14_CacheGet ==
    /\ view.op = "get" =>
          /\ view.hit <=> /\ cache.populated
                          /\ cache.user_id = view.viewer
                          /\ view.now - cache.timestamp < 60
          /\ view.hit => view.rows = cache.data
    /\ view.op = "set" =>
          cache = [populated |-> TRUE, data |-> view.rows,
                   timestamp |-> view.now, user_id |-> view.viewer]

C14_Witness ==
    /\ view.op = "get" /\ ~view.hit
    /\ cache.populated
    /\ cache.user_id = view.viewer
    /\ cache.data # << >>
    /\ view.now - cache.timestamp = 60

\* C15: whatever the interleaving of the loads of two viewers over the one
\* cache slot, the rows a load returns to its viewer were built by a fetch
\* made for that same viewer.
C15_OwnRowsOnly ==
    view.returned => view.made_for = view.viewer

C15_Witness ==
    /\ view.op = "get" /\ view.hit /\ view.viewer = 2
    /\ loads[1].pc = "fetched"
    /\ Len(loads[1].rows) = 2
    /\ Len(view.rows) = 1

\* C16: the rows returned to a viewer who is not an administrator, from the
\* table or from the cache, are readings of the viewer's hotel only; the
\* rows an administrator's fetch builds are all the readings of the table.
C16_HotelScope ==
    /\ (view.returned /\ ~User(view.viewer).is_admin) =>
          \A k \in DOMAIN view.rows :
              /\ view.rows[k].id \in DOMAIN readings
              /\ readings[view.rows[k].id].hotel = User(view.viewer).hotel
    /\ (view.op = "query" /\ User(view.viewer).is_admin) =>
          /\ Len(view.rows) = Cardinality(view.table)
          /\ {view.rows[k].id : k \in DOMAIN view.rows} = view.table

C16_Witness ==
    /\ view.returned /\ view.source = "store" /\ view.viewer = 2
    /\ Len(view.rows) = 1
    /\ \E i \in DOMAIN readings : readings[i].hotel # User(2).hotel

\* C17: authenticate succeeds, returning the user, exactly when username and
\* password are both non-empty, a user of exactly that username exists and
\* the password is the one its stored hash was made from (and the store did
\* not fail); otherwise it returns success = FALSE with no user; with empty
\* input it does not read the store.
C17_Authenticate ==
    auth.called =>
        /\ auth.result.success <=>
              /\ auth.username # "" /\ auth.password # ""
              /\ ~auth.fault
              /\ \E u \in auth.existing :
                    /\ User(u).username = auth.username
                    /\ User(u).password_hash = MakePassword(auth.password)
        /\ auth.result.success =>
              /\ auth.result.user \in auth.existing
              /\ User(auth.result.user).username = auth.username
        /\ ~auth.result.success => auth.result.user = NoUser
        /\ (auth.username = "" \/ auth.password = "") => ~auth.result.read

C17_Witness ==
    /\ auth.called
    /\ auth.result.success
    /\ auth.result.user = 2
    /\ 1 \notin auth.existing

\* C18: get_current_user in a session whose stored user id is no longer in
\* the User table returns None and clears that session's entry; called in a
\* session with no stored id (as a second call is) it returns None; in both
\* cases the entry of every other session is left as it was.
C18_StaleSessionCleared ==
    [][\A s \in Sessions :
          /\ (FormPage(s, FALSE) /\ storage[s] # NoUser /\ storage[s] \notin accounts)
                => /\ served'.as = NoUser
                   /\ storage'[s] = NoUser
                   /\ \A t \in Sessions \ {s} : storage'[t] = storage[t]
          /\ (FormPage(s, FALSE) /\ storage[s] = NoUser)
                => /\ served'.as = NoUser
                   /\ storage' = storage]_vars

C18_Witness ==
    /\ served.page = "form_view"
    /\ served.stored # NoUser
    /\ served.stored \notin accounts
    /\ served.as = NoUser
    /\ storage[served.session] = NoUser
    /\ \E t \in Sessions \ {served.session} : storage[t] = served.stored

\* C19: no call of submit_pool_reading, update_reading_status or
\* get_reading_by_reference ends in an exception: under a store fault or
\* invalid input each returns its failure value.
C19_NoExceptionEscapes ==
    last.op \in {"submit", "update", "get"} => last.exc = "none"

\* C20: submitting the form opened on an existing reading in status open or
\* submitted revises that reading: its measurement fields become the values
\* submitted, its status is submitted, its reference id is unchanged and the
\* table has no more rows than before.
C20_FormRevisesReading ==
    [][\A u \in Users, rid \in DOMAIN readings, d \in FormInputs :
          (/\ HandleSubmit(u, rid, d, "none")
           /\ readings[rid].status \in {"open", "submitted"})
             => /\ Len(readings') = Len(readings)
                /\ readings'[rid].ph_level = d.ph_level
                /\ readings'[rid].chlorine_ppm = d.chlorine_ppm
                /\ readings'[rid].alkalinity_ppm = d.alkalinity_ppm
                /\ readings'[rid].temperature_celsius = d.temperature_celsius
                /\ readings'[rid].water_clarity = d.water_clarity
                /\ readings'[rid].notes = d.notes
                /\ readings'[rid].status = "submitted"
                /\ readings'[rid].reference_id = readings[rid].reference_id]_vars

\* C21: a successful update_reading_status changes the status column of the
\* given reading and nothing else: its hotel, submitter, submission date,
\* measurements, notes and reference id, and every other row, are as before.
C21_UpdateWritesStatusOnly ==
    (last.op = "update" /\ last.ret) =>
        /\ DOMAIN readings = DOMAIN last.before
        /\ \A i \in DOMAIN readings :
              i # last.rid => readings[i] = last.before[i]
        /\ [readings[last.rid] EXCEPT !.status = last.before[last.rid].status]
              = last.before[last.rid]
        /\ readings[last.rid].status = last.status

C21_Witness ==
    /\ last.op = "update" /\ last.ret
    /\ Len(readings) = 2
    /\ readings[last.rid].status # last.before[last.rid].status
    /\ clock > readings[last.rid].submission_date
    /\ \E i \in DOMAIN readings :
          i # last.rid /\ readings[i].status # readings[last.rid].status

\* C22: when the store fails while a load rebuilds its rows (after a miss
\* or on a forced refresh), the load ends in the exception, returns no rows,
\* fresh or cached, and the step leaves the cache as it was; the cache check
\* that began the load did not write the cache either.
C22_FailedRebuild ==
    [][\A v \in Viewers :
          /\ LoadQuery(v, TRUE)
                => /\ cache' = cache
                   /\ view'.exc # "none"
                   /\ ~view'.returned
                   /\ view'.rows = << >>
                   /\ loads'[v] = NoLoad
          /\ (\E force_refresh \in BOOLEAN : LoadStart(v, force_refresh))
                => cache' = cache]_vars

C22_Witness ==
    /\ view.op = "query" /\ view.exc = "OperationalError"
    /\ ~view.returned
    /\ cache.populated
    /\ cache.user_id = view.viewer
    /\ cache.data # << >>
    /\ view.now - cache.timestamp < CACHE_TTL_SECONDS

\* C23: the rows returned by a load that is not forced are the viewer's rows
\* of the table as it stood at some instant of the 60 seconds before the
\* return. The table only grows, in primary-key order: it stood as its first
\* k rows from the instant row k was stamped until row k + 1 was.
C23_FreshWithinTtl ==
    view.returned =>
        \E k \in 0..Len(readings) :
            /\ view.rows = FetchFromDatabase(SubSeq(readings, 1, k), view.viewer)
            /\ k > 0 => readings[k].submission_date <= view.now
            /\ k < Len(readings) => readings[k + 1].submission_date >= view.now - 60

\* C24: the reference id tells hotel, user and second apart: a submission
\* rejected on the unique reference id collides with a reading of the same
\* hotel and the same user, never with one of another hotel/user pair.
C24_ReferenceIdInjective ==
    (last.op = "submit" /\ last.caught = "IntegrityError") =>
        \E i \in DOMAIN last.before :
            /\ last.before[i].hotel = User(last.actor).hotel
            /\ last.before[i].submitted_by = last.actor

\* C25: after update_reading_status has returned False the reading object
\* that was passed in carries the status it had before the call, which is
\* the status of its row.
C25_ObjectKeepsStatusOnFailure ==
    (last.op = "update" /\ ~last.ret) =>
        /\ last.reading.status = last.before[last.rid].status
        /\ last.reading.status = readings[last.rid].status

====
